---- MODULE Spec2Model ----
(***************************************************************************)
(* Loss-chain analyzer (loss_chain_analyzer.py): the LossChainAnalyzer      *)
(* object, the ingestion of the match feed and the scouting queries.        *)
(*                                                                         *)
(* Modelling conventions                                                    *)
(*  - A feed file is [exists, readable, entries]: the events -> categories *)
(*    -> matches nesting is flattened in iteration order, each entry       *)
(*    carrying the category label of the group it sits in.                 *)
(*  - "" stands for every falsy name (key absent, JSON null, empty string). *)
(*  - A dict that preserves insertion order (athlete_records) is a sequence *)
(*    of records; a defaultdict(set) is a function whose DOMAIN is its key  *)
(*    set.                                                                  *)
(*  - A score string is a sequence of tokens (numerals, the dash, the word  *)
(*    None), so that formatting and splitting are real conversions.         *)
(*  - Floats are exact rationals <<numerator, denominator>>.                *)
(*  - event, round and date of a MatchResult are carried through by the     *)
(*    code unchanged and are left out.                                      *)
(***************************************************************************)
EXTENDS Integers, Sequences, FiniteSets, TLC

VARIABLES
    matches,          \* self.matches
    athlete_records,  \* self.athlete_records, in insertion order
    loss_graph,       \* self.loss_graph : who_lost -> {who_beat_them}
    win_graph,        \* self.win_graph  : who_won  -> {who_they_beat}
    hashOrder,        \* the process's string-hash order (iteration order of sets)
    result            \* what the last call returned to its caller

vars == <<matches, athlete_records, loss_graph, win_graph, hashOrder, result>>

analyzer == <<matches, athlete_records, loss_graph, win_graph>>

----------------------------------------------------------------------------
(* Bounds *)

MaxMatches == 3     \* accepted matches held by one analyzer
MaxFeedLen == 2     \* entries in one feed file
MaxMiddle  == 4     \* intermediate athletes of a chain feed
MaxTopN    == 1     \* the leaderboard queries try top_n in 1..MaxTopN and the default
MaxCrowd   == 11    \* candidates of a crowd feed
MaxForm    == 4     \* wins, and losses, of SMITH in a form feed
MaxScored  == 3     \* bouts of a scored feed
MaxBeaters == 5     \* athletes who beat SMITH in a trace feed
MaxFlags   == 3     \* matches held after loading flag feeds

----------------------------------------------------------------------------
(* Names, countries, categories *)

SAUDI_CODES == {"KSA", "SAU", "SAUDI"}

ASIAN_COUNTRIES ==
    {"KSA", "SAU", "UAE", "KAZ", "UZB", "JPN", "KOR", "CHN", "MNG", "MGL",
     "THA", "VIE", "INA", "MAS", "SGP", "PHI", "IND", "PAK", "IRN", "IRI",
     "JOR", "KUW", "BRN", "QAT", "OMA", "YEM", "SYR", "LBN", "IRQ"}

\* The athletes of the modelled feeds, in alphabetical order.
NameList ==
    <<"ABE", "ALI", "BAE", "CHEN", "CHO", "DOAN", "ENDO", "GOTO", "HAN", "KIM",
      "LEE", "OMAR", "PARK", "SATO", "SMITH">>

Names == {NameList[i] : i \in 1..Len(NameList)}

\* The country each modelled corner carries for a name.
CountryOf(n) ==
    CASE n = "ALI"   -> "KSA"
      [] n = "SMITH" -> "UAE"
      [] n = "OMAR"  -> "USA"
      [] n = "KIM"   -> "KOR"
      [] n = "LEE"   -> "KOR"
      [] n = "SATO"  -> "JPN"
      [] n = "CHEN"  -> "CHN"
      [] n = "PARK"  -> "KOR"
      [] n = "ABE"   -> "JPN"
      [] n = "BAE"   -> "KOR"
      [] n = "CHO"   -> "KOR"
      [] n = "DOAN"  -> "VIE"
      [] n = "ENDO"  -> "JPN"
      [] n = "GOTO"  -> "JPN"
      [] n = "HAN"   -> "KOR"
      [] OTHER       -> ""

----------------------------------------------------------------------------
(* Scores: corner values, the formatted string, and its parsing *)

ScoreAbsent == [k |-> "absent", v |-> 0]   \* the corner has no 'score' key
ScoreNone   == [k |-> "none",   v |-> 0]   \* 'score': null
ScoreInt(n) == [k |-> "int",    v |-> n]   \* 'score': n

TokNum(n) == [k |-> "num",  v |-> n]
TokDash   == [k |-> "dash", v |-> 0]
TokNone   == [k |-> "word", v |-> 0]       \* the text None

\* str(x) inside the f-string, x an int or None
Str(x) ==
    IF x.k = "none" THEN <<TokNone>>
    ELSE IF x.v < 0 THEN <<TokDash, TokNum(0 - x.v)>>
    ELSE <<TokNum(x.v)>>

\* corner.get('score', 0)
GetScore(corner) == IF corner.score.k = "absent" THEN ScoreInt(0) ELSE corner.score

\* f"{red.get('score', 0)}-{blue.get('score', 0)}"
FormatScore(red, blue) == Str(GetScore(red)) \o <<TokDash>> \o Str(GetScore(blue))

RECURSIVE SplitFrom(_, _, _)
\* parts of s[i..] split at every dash, cur being the part under construction
SplitFrom(s, i, cur) ==
    IF i > Len(s) THEN <<cur>>
    ELSE IF s[i].k = "dash" THEN <<cur>> \o SplitFrom(s, i + 1, <<>>)
    ELSE SplitFrom(s, i + 1, Append(cur, s[i]))

\* s.split('-')
Split(s) == SplitFrom(s, 1, <<>>)

\* int(part) succeeds
IntParses(part) == Len(part) = 1 /\ part[1].k = "num"

IntOf(part) == part[1].v

----------------------------------------------------------------------------
(* Feed entries *)

NullCorner == [null |-> TRUE, name |-> "", country |-> "", score |-> ScoreAbsent]

Corner(n, s) == [null |-> FALSE, name |-> n, country |-> CountryOf(n), score |-> s]

Entry(w, red, blue, cat) ==
    [winner |-> w, red_corner |-> red, blue_corner |-> blue, category |-> cat]

\* A corner whose country is the one the feed states, whatever it is.
CornerFrom(n, c, s) == [null |-> FALSE, name |-> n, country |-> c, score |-> s]

\* A bout between two athletes that carries no score.
Bout(w, r, b, cat) == Entry(w, Corner(r, ScoreAbsent), Corner(b, ScoreAbsent), cat)

----------------------------------------------------------------------------
(* Exact arithmetic on non-negative rationals <<n, d>>, d > 0, in lowest terms *)

RECURSIVE GCD(_, _)
GCD(a, b) == IF b = 0 THEN a ELSE GCD(b, a % b)

Norm(n, d) == LET g == GCD(n, d) IN <<n \div g, d \div g>>

RAdd(a, b) == Norm(a[1] * b[2] + b[1] * a[2], a[2] * b[2])
RSub(a, b) == Norm(a[1] * b[2] - b[1] * a[2], a[2] * b[2])
RMul(a, b) == Norm(a[1] * b[1], a[2] * b[2])
RLess(a, b) == a[1] * b[2] < b[1] * a[2]
RLeq(a, b) == a[1] * b[2] <= b[1] * a[2]
RMin(a, b) == IF RLeq(a, b) THEN Norm(a[1], a[2]) ELSE Norm(b[1], b[2])
RInt(n) == <<n, 1>>
Zero == RInt(0)
One == RInt(1)

----------------------------------------------------------------------------
(* MatchResult, AthleteRecord *)

MatchResult(w, wc, l, lc, sc, cat) ==
    [winner |-> w, winner_country |-> wc, loser |-> l, loser_country |-> lc,
     score |-> sc, category |-> cat]

AthleteRecord(n, c) == [name |-> n, country |-> c, wins |-> <<>>, losses |-> <<>>]

total_matches(rec) == Len(rec.wins) + Len(rec.losses)

\* win_rate dividing the losses by the total
win_rate_of_losses(rec) ==
    LET total == Len(rec.wins) + Len(rec.losses)
    IN  IF total > 0 THEN Norm(Len(rec.losses), total) ELSE Zero

win_rate(rec) ==
    LET total == Len(rec.wins) + Len(rec.losses)
    IN  IF total > 0 THEN Norm(Len(rec.wins), total) ELSE Zero

----------------------------------------------------------------------------
(* dict / defaultdict helpers *)

HasKey(recs, n) == \E i \in 1..Len(recs) : recs[i].name = n

IndexOf(recs, n) == CHOOSE i \in 1..Len(recs) : recs[i].name = n

Keys(recs) == {recs[i].name : i \in 1..Len(recs)}

Lookup(recs, n) == recs[IndexOf(recs, n)]

EmptyGraph == [x \in {} |-> {}]

\* graph[k] = {v}: the set of an existing key is replaced
GraphAdd_replacing(g, k, v) ==
    IF k \in DOMAIN g THEN [g EXCEPT ![k] = {v}] ELSE g @@ (k :> {v})

\* graph[k].add(v) on a defaultdict(set)
GraphAdd(g, k, v) ==
    IF k \in DOMAIN g THEN [g EXCEPT ![k] = @ \cup {v}] ELSE g @@ (k :> {v})

\* graph.get(k, set())
GraphGet(g, k) == IF k \in DOMAIN g THEN g[k] ELSE {}

\* the graph after graph[k] has been read for every k of K: indexing a
\* defaultdict inserts the missing key with an empty set
AfterIndexing(g, K) ==
    [k \in DOMAIN g \cup K |-> IF k \in DOMAIN g THEN g[k] ELSE {}]

\* the graph after graph.get(k, set()) has been read for every k of K
AfterGets(g, K) == g

----------------------------------------------------------------------------
(* Ingestion *)

\* The analyzer's four collections as one value, plus the loop's locals.
AnalyzerState(ms, recs, lg, wg) ==
    [matches |-> ms, athlete_records |-> recs, loss_graph |-> lg, win_graph |-> wg]

\* the collections of an analyzer just constructed
NewAnalyzer == AnalyzerState(<<>>, <<>>, EmptyGraph, EmptyGraph)

\* update_records without the loss_graph update
update_records_no_loss_graph(st, match) ==
    LET r1 == IF HasKey(st.athlete_records, match.winner)
              THEN st.athlete_records
              ELSE Append(st.athlete_records,
                          AthleteRecord(match.winner, match.winner_country))
        r2 == [r1 EXCEPT ![IndexOf(r1, match.winner)].wins = Append(@, match)]
        r3 == IF HasKey(r2, match.loser)
              THEN r2
              ELSE Append(r2, AthleteRecord(match.loser, match.loser_country))
        r4 == [r3 EXCEPT ![IndexOf(r3, match.loser)].losses = Append(@, match)]
    IN  [st EXCEPT !.athlete_records = r4,
                   !.win_graph = GraphAdd(@, match.winner, match.loser)]

\* update_records that stores a new AthleteRecord for the winner every time
update_records_overwrite(st, match) ==
    LET r0 == st.athlete_records
        r1 == IF HasKey(r0, match.winner)
              THEN [r0 EXCEPT ![IndexOf(r0, match.winner)] =
                                  AthleteRecord(match.winner, match.winner_country)]
              ELSE Append(r0, AthleteRecord(match.winner, match.winner_country))
        r2 == [r1 EXCEPT ![IndexOf(r1, match.winner)].wins = Append(@, match)]
        r3 == IF HasKey(r2, match.loser)
              THEN r2
              ELSE Append(r2, AthleteRecord(match.loser, match.loser_country))
        r4 == [r3 EXCEPT ![IndexOf(r3, match.loser)].losses = Append(@, match)]
    IN  [st EXCEPT !.athlete_records = r4,
                   !.loss_graph = GraphAdd(@, match.loser, match.winner),
                   !.win_graph = GraphAdd(@, match.winner, match.loser)]

\* update_records that takes the country of an existing record from the match
update_records_last_country(st, match) ==
    LET r0 == st.athlete_records
        r1 == IF HasKey(r0, match.winner)
              THEN [r0 EXCEPT ![IndexOf(r0, match.winner)].country = match.winner_country]
              ELSE Append(r0, AthleteRecord(match.winner, match.winner_country))
        r2 == [r1 EXCEPT ![IndexOf(r1, match.winner)].wins = Append(@, match)]
        r3 == IF HasKey(r2, match.loser)
              THEN [r2 EXCEPT ![IndexOf(r2, match.loser)].country = match.loser_country]
              ELSE Append(r2, AthleteRecord(match.loser, match.loser_country))
        r4 == [r3 EXCEPT ![IndexOf(r3, match.loser)].losses = Append(@, match)]
    IN  [st EXCEPT !.athlete_records = r4,
                   !.loss_graph = GraphAdd(@, match.loser, match.winner),
                   !.win_graph = GraphAdd(@, match.winner, match.loser)]

update_records(st, match) ==
    LET r1 == IF HasKey(st.athlete_records, match.winner)
              THEN st.athlete_records
              ELSE Append(st.athlete_records,
                          AthleteRecord(match.winner, match.winner_country))
        r2 == [r1 EXCEPT ![IndexOf(r1, match.winner)].wins = Append(@, match)]
        r3 == IF HasKey(r2, match.loser)
              THEN r2
              ELSE Append(r2, AthleteRecord(match.loser, match.loser_country))
        r4 == [r3 EXCEPT ![IndexOf(r3, match.loser)].losses = Append(@, match)]
    IN  [st EXCEPT !.athlete_records = r4,
                   !.loss_graph = GraphAdd(@, match.loser, match.winner),
                   !.win_graph = GraphAdd(@, match.winner, match.loser)]

\* red.get(...) / blue.get(...) on a corner that is null raises AttributeError;
\* the test of line 120 evaluates left to right and stops at the first true part.
EntryRaises(e) ==
    /\ e.winner # ""
    /\ \/ e.red_corner.null
       \/ e.red_corner.name # "" /\ e.blue_corner.null

\* line 120: the entry is skipped
EntrySkipped(e) ==
    e.winner = "" \/ e.red_corner.name = "" \/ e.blue_corner.name = ""

\* a loser rule that tests the blue corner: the red corner loses when the
\* winner is the blue corner, the blue corner loses otherwise
ResultOf_blue_tested(e) ==
    IF e.winner = e.blue_corner.name
    THEN MatchResult(e.winner, e.blue_corner.country,
                     e.red_corner.name, e.red_corner.country,
                     FormatScore(e.red_corner, e.blue_corner), e.category)
    ELSE MatchResult(e.winner, e.red_corner.country,
                     e.blue_corner.name, e.blue_corner.country,
                     FormatScore(e.red_corner, e.blue_corner), e.category)

\* lines 123-143: the MatchResult built from an entry that is not skipped
ResultOf(e) ==
    IF e.winner = e.red_corner.name
    THEN MatchResult(e.winner, e.red_corner.country,
                     e.blue_corner.name, e.blue_corner.country,
                     FormatScore(e.red_corner, e.blue_corner), e.category)
    ELSE MatchResult(e.winner, e.blue_corner.country,
                     e.red_corner.name, e.red_corner.country,
                     FormatScore(e.red_corner, e.blue_corner), e.category)

RECURSIVE LoadLoop(_, _, _, _)
\* the loop of lines 108-147 from entry i on; the outcome is the analyzer's
\* collections, the count so far and whether an exception left the loop
LoadLoop(entries, i, st, count) ==
    IF i > Len(entries) THEN [st |-> st, count |-> count, raised |-> FALSE]
    ELSE LET e == entries[i] IN
         IF EntryRaises(e) THEN [st |-> st, count |-> count, raised |-> TRUE]
         ELSE IF EntrySkipped(e) THEN LoadLoop(entries, i + 1, st, count)
         ELSE LET m == ResultOf(e) IN
              LoadLoop(entries, i + 1,
                       update_records([st EXCEPT !.matches = Append(@, m)], m),
                       count + 1)

NoResult == [op |-> "none"]

\* what a load_matches(feed) call hands its caller: a count, or an exception
LoadResult(feed, out) ==
    [op |-> "load_matches", feed |-> feed,
     kind |-> IF out.raised THEN "raise" ELSE "return",
     count |-> IF out.raised THEN 0 ELSE out.count]

\* load_matches that lets the open() of a missing file raise
load_matches_missing_raises(feed, st) ==
    IF ~feed.exists THEN [st |-> st, count |-> 0, raised |-> TRUE]
    ELSE IF ~feed.readable THEN [st |-> st, count |-> 0, raised |-> TRUE]
    ELSE LoadLoop(feed.entries, 1, st, 0)

\* load_matches that empties the analyzer's collections before it reads
load_matches_resetting(feed, st) ==
    IF ~feed.exists THEN [st |-> st, count |-> 0, raised |-> FALSE]
    ELSE IF ~feed.readable THEN [st |-> st, count |-> 0, raised |-> TRUE]
    ELSE LoadLoop(feed.entries, 1, NewAnalyzer, 0)

\* lines 100-102 return 0 for a path that does not exist; open() and
\* json.load() of lines 104-105 raise on a file that cannot be read or parsed
load_matches(feed, st) ==
    IF ~feed.exists THEN [st |-> st, count |-> 0, raised |-> FALSE]
    ELSE IF ~feed.readable THEN [st |-> st, count |-> 0, raised |-> TRUE]
    ELSE LoadLoop(feed.entries, 1, st, 0)

----------------------------------------------------------------------------
(* Formatting of rates *)

\* f"{x:.0%}": the percentage rounded to an integer, ties to even
Percent(x) ==
    LET q == (100 * x[1]) \div x[2]
        r == (100 * x[1]) % x[2]
    IN  IF 2 * r > x[2] \/ (2 * r = x[2] /\ q % 2 = 1) THEN q + 1 ELSE q

Min(a, b) == IF a <= b THEN a ELSE b

----------------------------------------------------------------------------
(* Sequences and sets as Python iterates them *)

\* s[-n:]
LastN(s, n) == IF Len(s) <= n THEN s ELSE SubSeq(s, Len(s) - n + 1, Len(s))

\* s[:n]
FirstN(s, n) == IF Len(s) <= n THEN s ELSE SubSeq(s, 1, n)

\* the elements of a set of names in the order a loop over it visits them;
\* CPython orders a str set by the process's randomized string hashes
IterSet(S) == SelectSeq(hashOrder, LAMBDA n : n \in S)

----------------------------------------------------------------------------
(* Beatability *)

\* find_shared_opponents that counts, for the first name, the athletes beaten only
find_shared_opponents_beaten_only(saudi_name, opponent_name) ==
    LET saudi_faced == GraphGet(win_graph, saudi_name)
        opp_faced == GraphGet(win_graph, opponent_name) \cup GraphGet(loss_graph, opponent_name)
    IN  IterSet(saudi_faced \cap opp_faced)

find_shared_opponents(saudi_name, opponent_name) ==
    LET saudi_faced == GraphGet(win_graph, saudi_name) \cup GraphGet(loss_graph, saudi_name)
        opp_faced == GraphGet(win_graph, opponent_name) \cup GraphGet(loss_graph, opponent_name)
    IN  IterSet(saudi_faced \cap opp_faced)

Line(kind, who, whom, n1, n2) ==
    [kind |-> kind, who |-> who, whom |-> whom, n1 |-> n1, n2 |-> n2]

\* a close-loss test with diff < 3
IsCloseLossStrict(loss) ==
    /\ Len(loss.score) > 0
    /\ LET parts == Split(loss.score) IN
       /\ Len(parts) = 2
       /\ IntParses(parts[1]) /\ IntParses(parts[2])
       /\ LET s1 == IntOf(parts[1])
              s2 == IntOf(parts[2])
              diff == IF s1 >= s2 THEN s1 - s2 ELSE s2 - s1
          IN  diff < 3

\* lines 250-263: the loss counts as a close loss
IsCloseLoss(loss) ==
    /\ Len(loss.score) > 0
    /\ LET parts == Split(loss.score) IN
       /\ Len(parts) = 2
       /\ IntParses(parts[1]) /\ IntParses(parts[2])
       /\ LET s1 == IntOf(parts[1])
              s2 == IntOf(parts[2])
              diff == IF s1 >= s2 THEN s1 - s2 ELSE s2 - s1
          IN  diff <= 3

CloseLossEntry(loss) == [to |-> loss.winner, score |-> loss.score]

KeyLossEntry(loss) ==
    [to |-> loss.winner, country |-> loss.winner_country, score |-> loss.score]

MapSeq(s, F(_)) == [i \in 1..Len(s) |-> F(s[i])]

\* the score handed back without the cap
Uncapped(score) == score

\* beatability_score=min(score, 1.0)
Cap(score) == RMin(score, One)

\* a reasoning list that outlives the call: the lines of the call before
KeptReasoning ==
    IF result.op = "calculate_beatability" THEN result.value.reasoning ELSE <<>>

\* reasoning = [] : every call starts from a fresh list
NewReasoning == <<>>

\* shared losses taken from the Saudi athlete's own losses
shared_losses_of_beaters(saudi_record, opponent_record) ==
    LET saudi_victims == GraphGet(loss_graph, saudi_record.name)
        opponent_losses_to == GraphGet(loss_graph, opponent_record.name)
    IN  saudi_victims \cap opponent_losses_to

\* lines 214-216
shared_losses_of(saudi_record, opponent_record) ==
    LET saudi_victims == GraphGet(win_graph, saudi_record.name)
        opponent_losses_to == GraphGet(loss_graph, opponent_record.name)
    IN  saudi_victims \cap opponent_losses_to

\* the whole list taken as the recent matches
recent_all(list) == list

\* list[-3:] if len(list) >= 3 else list
recent(list) == IF Len(list) >= 3 THEN LastN(list, 3) ELSE list

\* an experience test that also fires on equal totals
at_least_as_experienced(saudi_record, opponent_record) ==
    total_matches(saudi_record) >= total_matches(opponent_record)

\* saudi_record.total_matches > opponent_record.total_matches
more_experienced(saudi_record, opponent_record) ==
    total_matches(saudi_record) > total_matches(opponent_record)

\* the local variables of calculate_beatability when it reaches its return;
\* steps holds the value of score after each of the five signals
Beatability(saudi_record, opponent_record) ==
    LET shared_losses == shared_losses_of(saudi_record, opponent_record)
        \* 1. shared losses
        score1 == RMul(<<3, 10>>, RInt(Cardinality(shared_losses)))
        reasoning1 == NewReasoning \o
                      MapSeq(IterSet(shared_losses),
                             LAMBDA loser : Line("lost_to", loser, saudi_record.name, 0, 0))
        \* 2. win rate comparison
        higher == RLess(win_rate(opponent_record), win_rate(saudi_record))
        score2 == RAdd(score1,
                       IF higher
                       THEN RMul(<<2, 10>>, RSub(win_rate(saudi_record),
                                                 win_rate(opponent_record)))
                       ELSE Zero)
        reasoning2 == reasoning1 \o
                      (IF higher
                       THEN <<Line("lower_win_rate", "", "",
                                   Percent(win_rate(opponent_record)),
                                   Percent(win_rate(saudi_record)))>>
                       ELSE <<>>)
        \* 3. recent form
        recent_losses == recent(opponent_record.losses)
        recent_wins == recent(opponent_record.wins)
        declining == Len(recent_losses) > Len(recent_wins)
        form == IF declining THEN "declining"
                ELSE IF Len(recent_wins) > Len(recent_losses) THEN "improving"
                ELSE "stable"
        score3 == RAdd(score2, IF declining THEN <<15, 100>> ELSE Zero)
        reasoning3 == reasoning2 \o
                      (IF declining
                       THEN <<Line("form_declining", "", "", Len(recent_losses), 0)>>
                       ELSE <<>>)
        \* 4. experience gap
        more == more_experienced(saudi_record, opponent_record)
        score4 == RAdd(score3, IF more THEN <<1, 10>> ELSE Zero)
        reasoning4 == reasoning3 \o
                      (IF more
                       THEN <<Line("less_experienced", "", "",
                                   total_matches(opponent_record),
                                   total_matches(saudi_record))>>
                       ELSE <<>>)
        \* 5. close losses
        close_losses == MapSeq(SelectSeq(opponent_record.losses, IsCloseLoss),
                               CloseLossEntry)
        score5 == RAdd(score4, RMul(<<1, 10>>, RInt(Min(Len(close_losses), 3))))
        reasoning5 == reasoning4 \o
                      (IF Len(close_losses) > 0
                       THEN <<Line("close_losses", "", "", Len(close_losses), 0)>>
                       ELSE <<>>)
    IN  [score |-> score5, reasoning |-> reasoning5, form |-> form,
         shared_losses |-> shared_losses, close_losses |-> close_losses,
         steps |-> <<score1, score2, score3, score4, score5>>]

\* lines 282-290: the ScoutingTarget built from the locals b
\* a ScoutingTarget whose key losses are the candidate's earliest five
ScoutingTarget_first_losses(opponent_record, b, shared) ==
    [opponent_name |-> opponent_record.name,
     opponent_country |-> opponent_record.country,
     beatability_score |-> Cap(b.score),
     reasoning |-> b.reasoning,
     key_losses |-> MapSeq(FirstN(opponent_record.losses, 5), KeyLossEntry),
     shared_opponents |-> shared,
     recent_form |-> b.form]

ScoutingTarget(opponent_record, b, shared) ==
    [opponent_name |-> opponent_record.name,
     opponent_country |-> opponent_record.country,
     beatability_score |-> Cap(b.score),
     reasoning |-> b.reasoning,
     key_losses |-> MapSeq(LastN(opponent_record.losses, 5), KeyLossEntry),
     shared_opponents |-> shared,
     recent_form |-> b.form]

calculate_beatability(saudi_record, opponent_record) ==
    ScoutingTarget(opponent_record, Beatability(saudi_record, opponent_record),
                   find_shared_opponents(saudi_record.name, opponent_record.name))

----------------------------------------------------------------------------
(* Strings: lower/upper case, substring test, sorted order of category labels *)

\* The category labels of the modelled feeds, in sorted() order.
CategoryList == <<"", "Male -77kg", "Male -85kg">>

Lower(s) ==
    CASE s = "Male -77kg" -> "male -77kg"
      [] s = "Male -85kg" -> "male -85kg"
      [] s \in Names      -> s          \* stands for the name in lower case
      [] OTHER            -> s

\* country codes of the modelled feeds are upper case already
Upper(s) == s

\* a in b, for the strings the model uses
Contains(a, b) ==
    \/ a = ""
    \/ a = b
    \/ a = "male" /\ b \in {"male -77kg", "male -85kg"}
    \/ a = "77" /\ b = "male -77kg"

\* an optional string argument: None, or a string
None == [none |-> TRUE, s |-> ""]
Some(s) == [none |-> FALSE, s |-> s]
Truthy(arg) == ~arg.none /\ arg.s # ""

----------------------------------------------------------------------------
(* list.sort(key=...): stable, ascending in the key *)

\* a descending sort that reverses the order of equal keys
ReversingSortDesc(s, keys) ==
    LET n == Len(s)
        pos(i) == Cardinality({j \in 1..n : RLess(keys[i], keys[j])})
                  + Cardinality({j \in (i + 1)..n : keys[j] = keys[i]}) + 1
    IN  [p \in 1..n |-> s[CHOOSE i \in 1..n : pos(i) = p]]

\* s sorted by descending key (ascending -key), keys[i] the rational key of
\* s[i]; equal keys keep their order
StableSortDesc(s, keys) ==
    LET n == Len(s)
        pos(i) == Cardinality({j \in 1..n : RLess(keys[i], keys[j])})
                  + Cardinality({j \in 1..(i - 1) : keys[j] = keys[i]}) + 1
    IN  [p \in 1..n |-> s[CHOOSE i \in 1..n : pos(i) = p]]

SortByTotalMatches(recs) ==
    StableSortDesc(recs, [i \in 1..Len(recs) |-> RInt(total_matches(recs[i]))])

\* targets.sort(key=lambda x: x.beatability_score): the minus sign forgotten
SortByScoreAscending(targets) ==
    StableSortDesc(targets,
                   [i \in 1..Len(targets) |-> RSub(One, targets[i].beatability_score)])

\* targets.sort(key=lambda x: -x.beatability_score)
SortByScore(targets) ==
    StableSortDesc(targets, [i \in 1..Len(targets) |-> targets[i].beatability_score])

----------------------------------------------------------------------------
(* Queries *)

get_saudi_athletes ==
    SortByTotalMatches(
        SelectSeq(athlete_records, LAMBDA r : Upper(r.country) \in SAUDI_CODES))

athlete_in_category(athlete_name, category) ==
    \E i \in 1..Len(matches) :
        /\ matches[i].winner = athlete_name \/ matches[i].loser = athlete_name
        /\ Contains(Lower(category), Lower(matches[i].category))

get_asian_opponents(category) ==
    SelectSeq(athlete_records,
              LAMBDA r : /\ Upper(r.country) \in ASIAN_COUNTRIES
                         /\ Upper(r.country) \notin SAUDI_CODES
                         /\ category.none \/ athlete_in_category(r.name, category.s))

\* targets[:10]
TopTargets == 10

\* the default of top_n
DefaultTopN == 20

\* lines 316-343: the report entry of one Saudi athlete
AthleteReport(saudi, opponents) ==
    LET candidates == SelectSeq(opponents, LAMBDA opp : opp.name # saudi.name)
        scored == MapSeq(candidates, LAMBDA opp : calculate_beatability(saudi, opp))
        targets == SelectSeq(scored, LAMBDA t : RLess(Zero, t.beatability_score))
    IN  [saudi_athlete |-> saudi.name,
         country |-> saudi.country,
         total_wins |-> Len(saudi.wins),
         total_losses |-> Len(saudi.losses),
         win_rate |-> win_rate(saudi),
         scouting_targets |-> FirstN(SortByScore(targets), TopTargets)]

\* a report that leaves out the Saudi athletes without a target
generate_scouting_report_targets_only(saudi_name, category) ==
    LET saudi_athletes ==
            IF Truthy(saudi_name)
            THEN SelectSeq(get_saudi_athletes,
                           LAMBDA r : Contains(Lower(saudi_name.s), Lower(r.name)))
            ELSE get_saudi_athletes
        opponents == get_asian_opponents(category)
    IN  [total_matches_analyzed |-> Len(matches),
         scouting_reports |->
            SelectSeq(MapSeq(saudi_athletes, LAMBDA saudi : AthleteReport(saudi, opponents)),
                      LAMBDA r : Len(r.scouting_targets) > 0)]

generate_scouting_report(saudi_name, category) ==
    LET saudi_athletes ==
            IF Truthy(saudi_name)
            THEN SelectSeq(get_saudi_athletes,
                           LAMBDA r : Contains(Lower(saudi_name.s), Lower(r.name)))
            ELSE get_saudi_athletes
        opponents == get_asian_opponents(category)
    IN  [total_matches_analyzed |-> Len(matches),
         scouting_reports |->
            IF Len(saudi_athletes) = 0 THEN <<>>
            ELSE MapSeq(saudi_athletes, LAMBDA saudi : AthleteReport(saudi, opponents))]

\* categories_seen that scans the wins only
categories_seen_in_wins(record) ==
    {record.wins[i].category : i \in 1..Len(record.wins)} \ {""}

\* lines 354-357 / 375-378
categories_seen(record) ==
    {m.category : m \in {(record.wins \o record.losses)[i] :
                            i \in 1..(Len(record.wins) + Len(record.losses))}} \ {""}

\* a dict category -> list, as the function on its keys
TopByCategory(recs, top_n) ==
    LET cats == UNION {categories_seen(recs[i]) : i \in 1..Len(recs)}
    IN  [cat \in cats |->
            FirstN(SortByTotalMatches(
                       SelectSeq(recs, LAMBDA r : cat \in categories_seen(r))),
                   top_n)]

get_top_asian_athletes_by_category(top_n) ==
    TopByCategory(SelectSeq(athlete_records,
                            LAMBDA r : Upper(r.country) \in ASIAN_COUNTRIES), top_n)

get_top_world_athletes_by_category(top_n) == TopByCategory(athlete_records, top_n)

LossDetail(loss) ==
    [lost_to |-> loss.winner, winner_country |-> loss.winner_country, score |-> loss.score]

AthleteEntry(athlete) ==
    [name |-> athlete.name,
     country |-> athlete.country,
     wins |-> Len(athlete.wins),
     losses |-> Len(athlete.losses),
     win_rate |-> Percent(win_rate(athlete)),
     total_matches |-> total_matches(athlete),
     loss_details |-> MapSeq(athlete.losses, LossDetail)]

\* lines 399-435 / 446-482, top_by_category being the grouping of either variant
CategoryReport(report_type, top_by_category, category) ==
    LET kept == IF Truthy(category)
                THEN {k \in DOMAIN top_by_category :
                         Contains(Lower(category.s), Lower(k))}
                ELSE DOMAIN top_by_category
        ordered == SelectSeq(CategoryList, LAMBDA k : k \in kept)
    IN  [total_matches_analyzed |-> Len(matches),
         report_type |-> report_type,
         categories |-> MapSeq(ordered,
                               LAMBDA k : [category |-> k,
                                           athletes |-> MapSeq(top_by_category[k],
                                                               AthleteEntry)])]

generate_asian_scouting_report(category, top_n) ==
    CategoryReport("Asian Top 20", get_top_asian_athletes_by_category(top_n), category)

generate_world_scouting_report(category, top_n) ==
    CategoryReport("World Top 20", get_top_world_athletes_by_category(top_n), category)

\* the keys generate_scouting_report reads in both graphs: every Saudi
\* athlete it reports on is scored against every candidate
ReportGets(saudi_name, category) ==
    LET saudis == {r.name : r \in {get_saudi_athletes[i] : i \in 1..Len(get_saudi_athletes)}}
        kept == IF Truthy(saudi_name)
                THEN {n \in saudis : Contains(Lower(saudi_name.s), Lower(n))}
                ELSE saudis
        opponents == get_asian_opponents(category)
        others == {opponents[i].name : i \in 1..Len(opponents)}
    IN  IF kept = {} \/ others \ kept = {} THEN {} ELSE kept \cup others

RECURSIVE Concat(_)
\* the lists of a list, joined in order
Concat(ss) == IF ss = <<>> THEN <<>> ELSE Head(ss) \o Concat(Tail(ss))

\* one printed line of print_loss_chains: the "title" line, the "none" line
\* (No recorded losses), the "header" line (X lost to:), a "first" level
\* beater or a "second" level beater
ChainLine(kind, name, country) == [kind |-> kind, name |-> name, country |-> country]

\* record.country if record else "???"
CountryOrUnknown(name) ==
    IF HasKey(athlete_records, name) THEN Lookup(athlete_records, name).country ELSE "???"

\* a trace that follows the depth parameter one hop further
print_loss_chains_third_hop(athlete_name, depth) ==
    LET losses_to == GraphGet(loss_graph, athlete_name)
        Third(second) ==
            IF depth > 2
            THEN MapSeq(FirstN(IterSet(GraphGet(loss_graph, second)), 3),
                        LAMBDA third : ChainLine("third", third, CountryOrUnknown(third)))
            ELSE <<>>
        Seconds(beater) ==
            IF depth > 1
            THEN Concat(MapSeq(FirstN(IterSet(GraphGet(loss_graph, beater)), 3),
                               LAMBDA second :
                                   <<ChainLine("second", second, CountryOrUnknown(second))>>
                                   \o Third(second)))
            ELSE <<>>
    IN
    <<ChainLine("title", athlete_name, "")>> \o
    (IF losses_to = {} THEN <<ChainLine("none", athlete_name, "")>>
     ELSE <<ChainLine("header", athlete_name, "")>> \o
          Concat(MapSeq(IterSet(losses_to),
                        LAMBDA beater :
                            <<ChainLine("first", beater, CountryOrUnknown(beater))>>
                            \o Seconds(beater))))

\* the lines print_loss_chains(athlete_name, depth) prints, in order
print_loss_chains(athlete_name, depth) ==
    LET losses_to == GraphGet(loss_graph, athlete_name) IN
    <<ChainLine("title", athlete_name, "")>> \o
    (IF losses_to = {} THEN <<ChainLine("none", athlete_name, "")>>
     ELSE <<ChainLine("header", athlete_name, "")>> \o
          Concat(MapSeq(IterSet(losses_to),
                        LAMBDA beater :
                            <<ChainLine("first", beater, CountryOrUnknown(beater))>>
                            \o (IF depth > 1
                                THEN MapSeq(FirstN(IterSet(GraphGet(loss_graph, beater)), 3),
                                            LAMBDA second :
                                                ChainLine("second", second,
                                                          CountryOrUnknown(second)))
                                ELSE <<>>))))

\* the keys print_loss_chains reads in loss_graph
ChainGets(athlete_name, depth) ==
    {athlete_name} \cup (IF depth > 1 THEN GraphGet(loss_graph, athlete_name) ELSE {})

----------------------------------------------------------------------------
(* Feeds *)

\* no file at the path
MissingFeed == [exists |-> FALSE, readable |-> FALSE, entries |-> <<>>]
\* a file that open() or json.load() fails on
UnreadableFeed == [exists |-> TRUE, readable |-> FALSE, entries |-> <<>>]
Feed(entries) == [exists |-> TRUE, readable |-> TRUE, entries |-> entries]

SeqsUpTo(S, n) == UNION {[1..k -> S] : k \in 0..n}

\* Entries of every shape the skip test and the loser rule tell apart.
IngestEntries ==
    { Entry("ALI", Corner("ALI", ScoreInt(5)), Corner("SMITH", ScoreInt(3)), "Male -77kg"),
      Bout("SMITH", "ALI", "SMITH", "Male -77kg"),      \* the blue corner wins
      Bout("ALI", "ALI", "ALI", "Male -77kg"),          \* both corners carry one name
      Bout("OMAR", "ALI", "SMITH", "Male -77kg"),       \* the winner is neither corner
      Bout("", "ALI", "SMITH", "Male -77kg"),           \* no winner
      Bout("SMITH", "", "SMITH", "Male -77kg"),         \* no red name
      Bout("ALI", "ALI", "", "Male -77kg"),             \* no blue name
      Entry("", Corner("ALI", ScoreAbsent), NullCorner, "Male -77kg"),     \* a bye
      Entry("SMITH", NullCorner, Corner("SMITH", ScoreAbsent), "Male -77kg") }

IngestFeeds == {MissingFeed} \cup {Feed(es) : es \in SeqsUpTo(IngestEntries, MaxFeedLen)}

\* Well-formed bouts over three athletes and three category labels.
BoardEntries ==
    { Bout(b[1], b[2], b[3], cat) :
        b \in { <<"SMITH", "SMITH", "ALI">>, <<"OMAR", "SMITH", "OMAR">>,
                <<"ALI", "OMAR", "ALI">> },
        cat \in {CategoryList[i] : i \in 1..Len(CategoryList)} }

BoardFeeds == {Feed(<<e>>) : e \in BoardEntries}

\* The athletes between ALI and SMITH in a chain feed.
MiddleList == <<"OMAR", "KIM", "LEE", "SATO", "CHEN", "PARK">>

Middle == {MiddleList[i] : i \in 1..MaxMiddle}

\* ALI beats every athlete of A, then every athlete of B beats SMITH.
ChainFeed(A, B) ==
    Feed(MapSeq(SelectSeq(MiddleList, LAMBDA n : n \in A),
                LAMBDA n : Bout("ALI", "ALI", n, "Male -77kg"))
         \o MapSeq(SelectSeq(MiddleList, LAMBDA n : n \in B),
                   LAMBDA n : Bout(n, n, "SMITH", "Male -77kg")))

ChainFeeds == {ChainFeed(A, B) : A \in SUBSET Middle, B \in SUBSET Middle}

\* The candidates of a crowd feed, in the order the feed introduces them.
CrowdList ==
    <<"KIM", "LEE", "SATO", "CHEN", "PARK", "ABE", "BAE", "CHO", "DOAN", "ENDO",
      "GOTO", "HAN">>

\* ALI beats the first k crowd athletes, those of C narrowly (no score on
\* either corner) and the others 9-0; then SMITH beats OMAR k times.
CrowdFeed(k, C) ==
    Feed([i \in 1..k |->
             IF CrowdList[i] \in C
             THEN Bout("ALI", "ALI", CrowdList[i], "Male -77kg")
             ELSE Entry("ALI", Corner("ALI", ScoreInt(9)),
                        Corner(CrowdList[i], ScoreInt(0)), "Male -77kg")]
         \o [i \in 1..k |-> Bout("SMITH", "SMITH", "OMAR", "Male -77kg")])

\* at most two of the candidates lose narrowly
CrowdFeeds ==
    {CrowdFeed(k, C) :
        k \in 0..MaxCrowd,
        C \in {D \in SUBSET {CrowdList[i] : i \in 1..MaxCrowd} : Cardinality(D) <= 2}}

\* SMITH beats KIM w times, then KIM beats SMITH l times; no bout has a score.
FormFeed(w, l) ==
    Feed([i \in 1..w |-> Bout("SMITH", "SMITH", "KIM", "Male -77kg")]
         \o [i \in 1..l |-> Bout("KIM", "KIM", "SMITH", "Male -77kg")])

FormFeeds == {FormFeed(w, l) : w \in 0..MaxForm, l \in 0..MaxForm}

\* The scores a bout's two corners carry: none at all, 3-0, 4-0, a null red
\* score, a null blue score, a negative red score, two null scores.
ScorePairs ==
    { <<ScoreAbsent, ScoreAbsent>>, <<ScoreInt(3), ScoreInt(0)>>,
      <<ScoreInt(4), ScoreInt(0)>>, <<ScoreNone, ScoreInt(0)>>,
      <<ScoreInt(2), ScoreNone>>, <<ScoreInt(0 - 1), ScoreInt(2)>>,
      <<ScoreNone, ScoreNone>> }

\* KIM, in the red corner, beats SMITH once for every score pair of the list.
ScoredFeed(pairs) ==
    Feed(MapSeq(pairs, LAMBDA p : Entry("KIM", Corner("KIM", p[1]), Corner("SMITH", p[2]),
                                        "Male -77kg")))

ScoredFeeds == {ScoredFeed(pairs) : pairs \in SeqsUpTo(ScorePairs, MaxScored)}

\* The first k athletes of MiddleList beat SMITH, then SMITH beats ALI; with
\* cycle, ALI then beats SMITH, so that each of the two has beaten the other.
TraceFeed(k, cycle) ==
    Feed([i \in 1..k |-> Bout(MiddleList[i], MiddleList[i], "SMITH", "Male -77kg")]
         \o <<Bout("SMITH", "SMITH", "ALI", "Male -77kg")>>
         \o (IF cycle THEN <<Bout("ALI", "ALI", "SMITH", "Male -77kg")>> ELSE <<>>))

TraceFeeds == {TraceFeed(k, cycle) : k \in 0..MaxBeaters, cycle \in BOOLEAN}

\* ALI against KIM under the flags KSA and KOR, or under UAE and JPN; the
\* declared winner is one of the two, nobody (the entry is skipped) or a third
\* name
FlagEntries ==
    {Entry(w, CornerFrom("ALI", flags[1], ScoreAbsent),
           CornerFrom("KIM", flags[2], ScoreAbsent), "Male -77kg") :
        w \in {"ALI", "KIM", "", "OMAR"}, flags \in {<<"KSA", "KOR">>, <<"UAE", "JPN">>}}

FlagFeeds == {Feed(es) : es \in SeqsUpTo(FlagEntries, MaxFeedLen)}

----------------------------------------------------------------------------
(* The state machine *)

\* PYTHONHASHSEED is drawn per process; two of the orders it can induce
HashOrders ==
    {NameList, [i \in 1..Len(NameList) |-> NameList[Len(NameList) + 1 - i]]}

Init ==
    /\ matches = <<>>
    /\ athlete_records = <<>>
    /\ loss_graph = EmptyGraph
    /\ win_graph = EmptyGraph
    /\ hashOrder \in HashOrders
    /\ result = NoResult

Current == AnalyzerState(matches, athlete_records, loss_graph, win_graph)

\* analyzer.load_matches(feed), the analyzer holding at most cap matches afterwards
LoadMatches(feed, cap) ==
    /\ LET out == load_matches(feed, Current) IN
       /\ Len(out.st.matches) <= cap
       /\ matches' = out.st.matches
       /\ athlete_records' = out.st.athlete_records
       /\ loss_graph' = out.st.loss_graph
       /\ win_graph' = out.st.win_graph
       /\ result' = LoadResult(feed, out)
    /\ UNCHANGED hashOrder

\* the caller holds no value: it is about to make its next call
Idle == result = NoResult

Load == Idle /\ \E feed \in IngestFeeds : LoadMatches(feed, MaxMatches)

LoadBoard == Idle /\ \E feed \in BoardFeeds : LoadMatches(feed, MaxMatches)

\* a chain feed is loaded into a fresh analyzer
LoadChain ==
    Idle /\ matches = <<>> /\ \E feed \in ChainFeeds : LoadMatches(feed, 2 * MaxMiddle)

\* a crowd feed is loaded into a fresh analyzer
LoadCrowd ==
    Idle /\ matches = <<>> /\ \E feed \in CrowdFeeds : LoadMatches(feed, 2 * MaxCrowd)

\* a flag feed is loaded into the analyzer, fresh or not
LoadFlag == Idle /\ \E feed \in FlagFeeds : LoadMatches(feed, MaxFlags)

\* a trace feed is loaded into the analyzer, fresh or not
LoadTrace == Idle /\ \E feed \in TraceFeeds : LoadMatches(feed, MaxBeaters + 2)

\* a form feed or a scored feed is loaded into a fresh analyzer
LoadForm ==
    /\ Idle /\ matches = <<>>
    /\ \E feed \in FormFeeds \cup ScoredFeeds : LoadMatches(feed, 2 * MaxForm + MaxScored)

\* the branches of main after a successful load, by the flags given
Commands == {"chains", "top_asian", "top_world", "report", "help"}

\* main(): a fresh analyzer loads the feed at the default path; an exception
\* leaves main uncaught (the process fails), a count of 0 makes it return
\* before any command, and otherwise the command of the flags runs and main
\* returns
Main ==
    /\ Idle /\ matches = <<>>
    /\ \E feed \in IngestFeeds \cup {UnreadableFeed}, command \in Commands :
        LET out == load_matches(feed, Current) IN
        /\ matches' = out.st.matches
        /\ athlete_records' = out.st.athlete_records
        /\ loss_graph' = out.st.loss_graph
        /\ win_graph' = out.st.win_graph
        /\ result' = [op |-> "main", feed |-> feed,
                      command |-> IF out.raised \/ out.count = 0 THEN "none" ELSE command,
                      outcome |-> IF out.raised THEN "fatal" ELSE "ok"]
    /\ UNCHANGED hashOrder

\* the caller lets go of the value it was handed
Discard ==
    /\ result # NoResult
    /\ result' = NoResult
    /\ UNCHANGED <<analyzer, hashOrder>>

\* a call that hands back value after reading win_graph at the keys wkeys
\* and loss_graph at the keys lkeys
QueryGraphs(op, args, value, wkeys, lkeys) ==
    /\ Idle
    /\ result' = [op |-> op, args |-> args, value |-> value, repeated |-> FALSE,
                  again |-> value]
    /\ win_graph' = AfterGets(win_graph, wkeys)
    /\ loss_graph' = AfterGets(loss_graph, lkeys)
    /\ UNCHANGED <<matches, athlete_records, hashOrder>>

\* a call that reads neither graph
Query(op, args, value) == QueryGraphs(op, args, value, {}, {})

NameArgs == {None, Some("ALI"), Some("KIM")}

CategoryArgs == {None, Some(""), Some("77")}

TopNs == (1..MaxTopN) \cup {DefaultTopN}

GetSaudiAthletes == Query("get_saudi_athletes", <<>>, get_saudi_athletes)

GetAsianOpponents ==
    \E category \in CategoryArgs :
        Query("get_asian_opponents", <<category>>, get_asian_opponents(category))

\* a name no feed mentions
Stranger == "ZED"

\* find_shared_opponents of two names, each an athlete on record or a stranger
FindSharedOpponents ==
    \E a, b \in Keys(athlete_records) \cup {Stranger} :
        QueryGraphs("find_shared_opponents", <<a, b>>, find_shared_opponents(a, b),
                    {a, b}, {a, b})

CalculateBeatability ==
    \E a \in 1..Len(athlete_records), b \in 1..Len(athlete_records) :
        LET names == {athlete_records[a].name, athlete_records[b].name} IN
        QueryGraphs("calculate_beatability",
                    <<athlete_records[a].name, athlete_records[b].name>>,
                    calculate_beatability(athlete_records[a], athlete_records[b]),
                    names, names)

\* the caller repeats its last calculate_beatability call, keeping both values
CalculateBeatabilityAgain ==
    /\ result.op = "calculate_beatability"
    /\ ~result.repeated
    /\ result' = [result EXCEPT
                    !.repeated = TRUE,
                    !.again = calculate_beatability(Lookup(athlete_records, result.args[1]),
                                                    Lookup(athlete_records, result.args[2]))]
    /\ win_graph' = AfterGets(win_graph, {result.args[1], result.args[2]})
    /\ loss_graph' = AfterGets(loss_graph, {result.args[1], result.args[2]})
    /\ UNCHANGED <<matches, athlete_records, hashOrder>>

GenerateScoutingReport ==
    \E saudi_name \in NameArgs, category \in CategoryArgs :
        \E gets \in {ReportGets(saudi_name, category)} :
            QueryGraphs("generate_scouting_report", <<saudi_name, category>>,
                        generate_scouting_report(saudi_name, category), gets, gets)

ChainArgs == {"ALI", "SMITH", "ZED"}

Depths == {1, 2, 3}

PrintLossChains ==
    \E athlete_name \in ChainArgs, depth \in Depths :
        QueryGraphs("print_loss_chains", <<athlete_name, depth>>,
                    print_loss_chains(athlete_name, depth),
                    {}, ChainGets(athlete_name, depth))

GetTopAsian ==
    \E top_n \in TopNs :
        Query("get_top_asian_athletes_by_category", <<top_n>>,
              get_top_asian_athletes_by_category(top_n))

GetTopWorld ==
    \E top_n \in TopNs :
        Query("get_top_world_athletes_by_category", <<top_n>>,
              get_top_world_athletes_by_category(top_n))

GenerateAsianReport ==
    \E category \in CategoryArgs, top_n \in TopNs :
        Query("generate_asian_scouting_report", <<category, top_n>>,
              generate_asian_scouting_report(category, top_n))

GenerateWorldReport ==
    \E category \in CategoryArgs, top_n \in TopNs :
        Query("generate_world_scouting_report", <<category, top_n>>,
              generate_world_scouting_report(category, top_n))

Queries ==
    \/ GetSaudiAthletes
    \/ GetAsianOpponents
    \/ FindSharedOpponents
    \/ CalculateBeatability
    \/ CalculateBeatabilityAgain
    \/ GenerateScoutingReport
    \/ PrintLossChains
    \/ GetTopAsian
    \/ GetTopWorld
    \/ GenerateAsianReport
    \/ GenerateWorldReport

Next == Load \/ Main \/ Discard \/ Queries

Spec == Init /\ [][Next]_vars

NextBoard == LoadBoard \/ Discard \/ Queries

SpecBoard == Init /\ [][NextBoard]_vars

NextChain == LoadChain \/ Discard \/ Queries

SpecChain == Init /\ [][NextChain]_vars

NextForm == LoadForm \/ Discard \/ Queries

SpecForm == Init /\ [][NextForm]_vars

\* a caller that loads flag feeds and asks who the Saudi athletes are
NextFlag == LoadFlag \/ Discard \/ GetSaudiAthletes

SpecFlag == Init /\ [][NextFlag]_vars

\* a caller that loads trace feeds, prints loss chains and rates opponents
NextTrace == LoadTrace \/ Discard \/ PrintLossChains \/ CalculateBeatability

SpecTrace == Init /\ [][NextTrace]_vars

\* a caller that loads a crowd feed and asks for scouting reports
NextCrowd == LoadCrowd \/ Discard \/ GenerateScoutingReport

SpecCrowd == Init /\ [][NextCrowd]_vars

----------------------------------------------------------------------------
(* Properties of ingestion *)

MatchSet == {matches[i] : i \in 1..Len(matches)}

CountWhere(s, P(_)) == Cardinality({i \in 1..Len(s) : P(s[i])})

\* C1: for every match held in analyzer.matches, the winner is a key of
\* win_graph whose set contains the loser, and the loser is a key of
\* loss_graph whose set contains the winner.
C1_MatchesInGraphs ==
    \A m \in MatchSet :
        /\ m.winner \in DOMAIN win_graph
        /\ m.loser \in win_graph[m.winner]
        /\ m.loser \in DOMAIN loss_graph
        /\ m.winner \in loss_graph[m.loser]

C1_Witness ==
    /\ result.op = "load_matches"
    /\ Len(matches) >= 2
    /\ \E m1, m2 \in MatchSet : m1.winner # m2.winner /\ m1.loser # m2.loser

\* C2: every MatchResult appended to analyzer.matches has a non-empty winner,
\* a non-empty loser, and a winner different from the loser.
C2_WinnerIsNotLoser ==
    \A m \in MatchSet : m.winner # "" /\ m.loser # "" /\ m.winner # m.loser

\* the entry lacks a winner or the name of a corner
Malformed(e) == e.winner = "" \/ e.red_corner.name = "" \/ e.blue_corner.name = ""

\* C3: a load_matches call never raises on a malformed entry; it returns the
\* number of entries that are not malformed, and leaves the analyzer as a load
\* of the feed without its malformed entries would.
C3_SkipsMalformed ==
    [][(Idle /\ result'.op = "load_matches") =>
        LET kept == SelectSeq(result'.feed.entries, LAMBDA e : ~Malformed(e))
            clean == load_matches([result'.feed EXCEPT !.entries = kept], Current)
        IN  /\ result'.kind = "return"
            /\ result'.count = Len(kept)
            /\ matches' = clean.st.matches
            /\ athlete_records' = clean.st.athlete_records
            /\ loss_graph' = clean.st.loss_graph
            /\ win_graph' = clean.st.win_graph]_vars

ScenarioA ==
    MatchResult("ALI", "KSA", "SMITH", "UAE", <<TokNum(5), TokDash, TokNum(3)>>,
                "Male -77kg")

\* C4: every athlete's wins list is as long as the number of accepted matches
\* the athlete won, and the losses list as long as the number the athlete
\* lost (an athlete of no accepted match has no record); after the single
\* match ALI (KSA) beats SMITH (UAE), ALI has 1 win, 0 losses and win rate 1,
\* SMITH 0 wins, 1 loss and win rate 0, and loss_graph[SMITH] = {ALI}.
C4_RecordCounts ==
    /\ \A X \in Names :
        LET won == CountWhere(matches, LAMBDA m : m.winner = X)
            lost == CountWhere(matches, LAMBDA m : m.loser = X)
        IN  IF HasKey(athlete_records, X)
            THEN /\ Len(Lookup(athlete_records, X).wins) = won
                 /\ Len(Lookup(athlete_records, X).losses) = lost
            ELSE won = 0 /\ lost = 0
    /\ Keys(athlete_records) \subseteq Names
    /\ matches = <<ScenarioA>> =>
        /\ Keys(athlete_records) = {"ALI", "SMITH"}
        /\ LET ali == Lookup(athlete_records, "ALI")
               smith == Lookup(athlete_records, "SMITH")
           IN  /\ Len(ali.wins) = 1 /\ Len(ali.losses) = 0 /\ win_rate(ali) = One
               /\ Len(smith.wins) = 0 /\ Len(smith.losses) = 1 /\ win_rate(smith) = Zero
        /\ loss_graph["SMITH"] = {"ALI"}

C4_Witness == result.op = "load_matches" /\ matches = <<ScenarioA>>

Records == {athlete_records[i] : i \in 1..Len(athlete_records)}

InUnit(x) == RLeq(Zero, x) /\ RLeq(x, One)

\* C5 as stated: every win rate lies in [0, 1], and is 0 exactly when the
\* record has no matches.
C5_ZeroIffNoMatches ==
    \A rec \in Records :
        /\ InUnit(win_rate(rec))
        /\ (win_rate(rec) = Zero) <=> (total_matches(rec) = 0)

\* C5, amended: every win rate lies in [0, 1], and is 0 exactly when the
\* record has no wins; a record without matches has win rate 0.
C5_ZeroIffNoWins ==
    /\ \A rec \in Records :
        /\ InUnit(win_rate(rec))
        /\ (win_rate(rec) = Zero) <=> (Len(rec.wins) = 0)
    /\ \A n \in Names : win_rate(AthleteRecord(n, CountryOf(n))) = Zero

C5_Witness ==
    /\ \E rec \in Records : Len(rec.wins) = 0 /\ total_matches(rec) > 0
    /\ \E rec \in Records : RLess(Zero, win_rate(rec)) /\ RLess(win_rate(rec), One)

\* C10: a load of a missing feed, or of a feed with no entries, returns 0
\* without raising; while the analyzer holds nothing, every query returns an
\* empty collection and every report is empty with total_matches_analyzed 0.
C10_EmptyFeed ==
    /\ (result.op = "load_matches"
        /\ (~result.feed.exists \/ result.feed.entries = <<>>)) =>
            result.kind = "return" /\ result.count = 0
    /\ (matches = <<>> /\ athlete_records = <<>>) =>
        /\ result.op \in {"get_saudi_athletes", "get_asian_opponents"} =>
               result.value = <<>>
        /\ result.op \in {"get_top_asian_athletes_by_category",
                          "get_top_world_athletes_by_category"} =>
               DOMAIN result.value = {}
        /\ result.op = "generate_scouting_report" =>
               /\ result.value.total_matches_analyzed = 0
               /\ result.value.scouting_reports = <<>>
        /\ result.op \in {"generate_asian_scouting_report",
                          "generate_world_scouting_report"} =>
               /\ result.value.total_matches_analyzed = 0
               /\ result.value.categories = <<>>

C10_Witness ==
    /\ result.op = "load_matches"
    /\ ~result.feed.exists
    /\ result.kind = "return" /\ result.count = 0
    /\ matches = <<>> /\ athlete_records = <<>>

----------------------------------------------------------------------------
(* Properties of the beatability score *)

AllTargets(report) ==
    UNION {{report.scouting_reports[i].scouting_targets[j] :
                j \in 1..Len(report.scouting_reports[i].scouting_targets)} :
           i \in 1..Len(report.scouting_reports)}

\* C6: the beatability_score returned by calculate_beatability, and every
\* beatability_score of a report of generate_scouting_report, is at most 1.
C6_ScoreAtMostOne ==
    /\ result.op = "calculate_beatability" =>
           /\ RLeq(result.value.beatability_score, One)
           /\ RLeq(result.again.beatability_score, One)
    /\ result.op = "generate_scouting_report" =>
           \A t \in AllTargets(result.value) : RLeq(t.beatability_score, One)

\* a report lists a target whose shared losses alone are worth more than 1
C6_Witness ==
    /\ result.op = "generate_scouting_report"
    /\ \E i \in 1..Len(result.value.scouting_reports) :
        LET r == result.value.scouting_reports[i] IN
        \E j \in 1..Len(r.scouting_targets) :
            LET t == r.scouting_targets[j]
                S == GraphGet(win_graph, r.saudi_athlete)
                         \cap GraphGet(loss_graph, t.opponent_name)
            IN  /\ RLess(One, RMul(<<3, 10>>, RInt(Cardinality(S))))
                /\ t.beatability_score = One

----------------------------------------------------------------------------
(* Properties of the leaderboards *)

Won(X) == CountWhere(matches, LAMBDA m : m.winner = X)
Lost(X) == CountWhere(matches, LAMBDA m : m.loser = X)

\* the non-empty category labels of the matches X took part in
LabelsOf(X) == {m.category : m \in {x \in MatchSet : x.winner = X \/ x.loser = X}} \ {""}

\* C8: every category list of either leaderboard is ordered by total_matches,
\* non-increasing, and athletes with equal total_matches keep the order in
\* which athlete_records holds them.
C8_StableByTotalMatches ==
    result.op \in {"get_top_asian_athletes_by_category",
                   "get_top_world_athletes_by_category"} =>
        \A cat \in DOMAIN result.value :
            LET L == result.value[cat] IN
            \A i, j \in 1..Len(L) :
                i < j =>
                    \/ total_matches(L[i]) > total_matches(L[j])
                    \/ /\ total_matches(L[i]) = total_matches(L[j])
                       /\ IndexOf(athlete_records, L[i].name)
                              < IndexOf(athlete_records, L[j].name)

\* a list of three: a leader, then two tied athletes, SMITH ahead of ALI
C8_Witness ==
    /\ result.op \in {"get_top_asian_athletes_by_category",
                      "get_top_world_athletes_by_category"}
    /\ \E cat \in DOMAIN result.value :
        LET L == result.value[cat] IN
        /\ Len(L) = 3
        /\ total_matches(L[1]) > total_matches(L[2])
        /\ total_matches(L[2]) = total_matches(L[3])
        /\ L[2].name = "SMITH" /\ L[3].name = "ALI"

\* C9: in the world leaderboard an athlete is listed under exactly the
\* non-empty category labels of the athlete's matches, at most once under
\* each, and is missing from such a list only when the list is full with
\* athletes of at least as many matches; every listing carries the
\* career-wide wins, losses and total_matches, in the grouping and in the
\* world report alike.
C9_OncePerCategory ==
    /\ result.op = "get_top_world_athletes_by_category" =>
        \A X \in Names :
            /\ \A cat \in DOMAIN result.value :
                LET L == result.value[cat]
                    n == CountWhere(L, LAMBDA r : r.name = X)
                IN  /\ n <= 1
                    /\ n = 1 => cat \in LabelsOf(X)
                    /\ \A i \in 1..Len(L) :
                        L[i].name = X =>
                            /\ Len(L[i].wins) = Won(X)
                            /\ Len(L[i].losses) = Lost(X)
                            /\ total_matches(L[i]) = Won(X) + Lost(X)
                    /\ (n = 0 /\ cat \in LabelsOf(X)) =>
                            /\ Len(L) = result.args[1]
                            /\ \A i \in 1..Len(L) :
                                   total_matches(L[i]) >= Won(X) + Lost(X)
            /\ LabelsOf(X) \subseteq DOMAIN result.value
    /\ result.op = "generate_world_scouting_report" =>
        \A c \in 1..Len(result.value.categories) :
            LET A == result.value.categories[c].athletes IN
            \A i \in 1..Len(A) :
                /\ result.value.categories[c].category \in LabelsOf(A[i].name)
                /\ A[i].wins = Won(A[i].name)
                /\ A[i].losses = Lost(A[i].name)
                /\ A[i].total_matches = Won(A[i].name) + Lost(A[i].name)
                /\ \A j \in 1..Len(A) : A[j].name = A[i].name => j = i

\* an athlete of two categories is listed in both, with the same record
C9_Witness ==
    /\ result.op = "get_top_world_athletes_by_category"
    /\ \E X \in Names :
        /\ Cardinality(LabelsOf(X)) = 2
        /\ Won(X) >= 1 /\ Lost(X) >= 1
        /\ \A cat \in LabelsOf(X) :
            \E i \in 1..Len(result.value[cat]) :
                /\ result.value[cat][i].name = X
                /\ total_matches(result.value[cat][i]) = Won(X) + Lost(X)

----------------------------------------------------------------------------
(* Properties of the scouting report *)

\* the Saudi records the name filter of generate_scouting_report lets through
MatchingSaudi(saudi_name) ==
    {r \in Records :
        /\ Upper(r.country) \in SAUDI_CODES
        /\ Truthy(saudi_name) => Contains(Lower(saudi_name.s), Lower(r.name))}

\* C11: a report of generate_scouting_report has an empty scouting_reports
\* list exactly when the name filter matches no Saudi athlete; when Saudi
\* athletes match, each has one entry, also the athlete none of whose
\* candidates scores above 0 (that entry's scouting_targets is empty), so
\* the two empty outcomes differ.
C11_EmptyOutcomesDiffer ==
    result.op = "generate_scouting_report" =>
        LET reps == result.value.scouting_reports
            M == MatchingSaudi(result.args[1])
        IN  /\ M = {} <=> reps = <<>>
            /\ Len(reps) = Cardinality(M)
            /\ \A r \in M : \E i \in 1..Len(reps) : reps[i].saudi_athlete = r.name
            /\ \A other \in NameArgs :
                   (M # {} /\ MatchingSaudi(other) = {}) =>
                       result.value # generate_scouting_report(other, result.args[2])

\* ALI matches, SMITH is a candidate, and ALI's entry lists no target
C11_Witness ==
    /\ result.op = "generate_scouting_report"
    /\ Len(get_asian_opponents(result.args[2])) > 0
    /\ Len(result.value.scouting_reports) = 1
    /\ result.value.scouting_reports[1].saudi_athlete = "ALI"
    /\ result.value.scouting_reports[1].scouting_targets = <<>>
    /\ MatchingSaudi(Some("KIM")) = {}

\* C12: in a report of generate_scouting_report every scouting_targets list
\* has at most 10 entries, each with a beatability_score above 0, in
\* non-increasing score order, and no candidate left out of the list scores
\* strictly higher than a listed one.
C12_TopTargets ==
    result.op = "generate_scouting_report" =>
        \A i \in 1..Len(result.value.scouting_reports) :
            LET r == result.value.scouting_reports[i]
                T == r.scouting_targets
                saudi == Lookup(athlete_records, r.saudi_athlete)
                opponents == get_asian_opponents(result.args[2])
                listed == {T[j].opponent_name : j \in 1..Len(T)}
                omitted == {c \in {opponents[j] : j \in 1..Len(opponents)} :
                               c.name # saudi.name /\ c.name \notin listed}
            IN  /\ Len(T) <= 10
                /\ \A j \in 1..Len(T) : RLess(Zero, T[j].beatability_score)
                /\ \A j, k \in 1..Len(T) :
                       j < k => RLeq(T[k].beatability_score, T[j].beatability_score)
                /\ \A c \in omitted : \A j \in 1..Len(T) :
                       ~RLess(T[j].beatability_score,
                              calculate_beatability(saudi, c).beatability_score)

\* eleven candidates score above 0 and SMITH scores 0: ten are listed, the
\* first scoring more than the last, although the feed introduced a
\* lower-scoring candidate first
C12_Witness ==
    /\ result.op = "generate_scouting_report"
    /\ Len(result.value.scouting_reports) = 1
    /\ LET T == result.value.scouting_reports[1].scouting_targets
           ali == Lookup(athlete_records, "ALI")
       IN  /\ Len(T) = 10
           /\ RLess(T[10].beatability_score, T[1].beatability_score)
           /\ Cardinality({c \in Records :
                              RLess(Zero, calculate_beatability(ali, c).beatability_score)
                              /\ c.name \in {CrowdList[j] : j \in 1..Len(CrowdList)}}) > 10
           /\ calculate_beatability(ali, Lookup(athlete_records, "SMITH")).beatability_score
                  = Zero
           /\ RLess(calculate_beatability(ali, Lookup(athlete_records, "KIM")).beatability_score,
                    T[1].beatability_score)

----------------------------------------------------------------------------
(* The read-only calls *)

ReadOnlyOps ==
    {"generate_scouting_report", "generate_asian_scouting_report",
     "generate_world_scouting_report", "print_loss_chains", "calculate_beatability",
     "find_shared_opponents", "get_saudi_athletes", "get_asian_opponents"}

\* C13: a call of generate_scouting_report, generate_asian_scouting_report,
\* generate_world_scouting_report, print_loss_chains, calculate_beatability,
\* find_shared_opponents, get_saudi_athletes or get_asian_opponents leaves
\* matches, athlete_records with every wins and losses list, win_graph and
\* loss_graph as they were, the key sets of the two graphs included.
C13_ReadOnly ==
    [][(result'.op \in ReadOnlyOps /\ result' # result) =>
           /\ matches' = matches
           /\ athlete_records' = athlete_records
           /\ win_graph' = win_graph /\ DOMAIN win_graph' = DOMAIN win_graph
           /\ loss_graph' = loss_graph /\ DOMAIN loss_graph' = DOMAIN loss_graph]_vars

\* matches are loaded and a call has asked for a name that neither graph
\* holds as a key
C13_Witness ==
    /\ matches # <<>>
    /\ \/ /\ result.op = "print_loss_chains"
          /\ result.args[1] \notin DOMAIN loss_graph
       \/ /\ result.op \in {"calculate_beatability", "find_shared_opponents"}
          /\ \E i \in 1..2 : result.args[i] \notin DOMAIN win_graph
          /\ \E i \in 1..2 : result.args[i] \notin DOMAIN loss_graph

----------------------------------------------------------------------------
(* Diagnostics of ingestion *)

\* the malformed entries of a feed: those load_matches is to skip
SkipTotal(feed) == CountWhere(feed.entries, Malformed)

\* C14: after load_matches has returned, the number of malformed entries it
\* skipped can be told from the return value and the analyzer's state: no
\* other feed with a different skip total would have produced the same
\* return value and the same state.
C14_SkipTotalObservable ==
    [][(result'.op = "load_matches" /\ result'.kind = "return") =>
           \A other \in IngestFeeds :
               LET out == load_matches(other, Current) IN
               (/\ ~out.raised
                /\ out.count = result'.count
                /\ out.st = AnalyzerState(matches', athlete_records', loss_graph',
                                          win_graph'))
                   => SkipTotal(other) = SkipTotal(result'.feed)]_vars

----------------------------------------------------------------------------
(* The command entry point *)

\* C15: main() ends in a fatal outcome if and only if the feed source cannot
\* be located or read; on a readable feed it completes successfully, also
\* when no match is accepted.
C15_FatalIffNoFeed ==
    result.op = "main" =>
        (result.outcome = "fatal" <=> (~result.feed.exists \/ ~result.feed.readable))

----------------------------------------------------------------------------
(* The signals of the beatability score *)

\* the two records of the last calculate_beatability call, and its locals
CallR == Lookup(athlete_records, result.args[1])
CallO == Lookup(athlete_records, result.args[2])
CallLocals == Beatability(CallR, CallO)

\* the athletes X has beaten / has lost to, read off the match list
BeatenBy(X) == {m.loser : m \in {x \in MatchSet : x.winner = X}}
BeatersOf(X) == {m.winner : m \in {x \in MatchSet : x.loser = X}}

LinesOfKind(reasoning, kind) == SelectSeq(reasoning, LAMBDA l : l.kind = kind)

\* C16: with S the athletes R has beaten who have beaten O, the shared-loss
\* signal of calculate_beatability(R, O) puts 0.3 x |S| on the score and
\* appends exactly |S| "Lost to" lines, one naming each member of S (OMAR
\* beaten by ALI and beating SMITH: 0.3 and one line naming OMAR); with S
\* empty it adds nothing and appends no such line.
C16_SharedLossSignal ==
    result.op = "calculate_beatability" =>
        LET S == BeatenBy(result.args[1]) \cap BeatersOf(result.args[2])
            lines == LinesOfKind(result.value.reasoning, "lost_to")
        IN  /\ CallLocals.steps[1] = RMul(<<3, 10>>, RInt(Cardinality(S)))
            /\ Len(lines) = Cardinality(S)
            /\ {lines[i].who : i \in 1..Len(lines)} = S
            /\ \A i \in 1..Len(lines) : lines[i].whom = result.args[1]
            /\ S = {} => (CallLocals.steps[1] = Zero /\ lines = <<>>)

\* ALI has beaten OMAR, OMAR has beaten SMITH: 0.3 and one line naming OMAR
C16_Witness ==
    /\ result.op = "calculate_beatability"
    /\ result.args = <<"ALI", "SMITH">>
    /\ "OMAR" \in GraphGet(win_graph, "ALI") /\ "OMAR" \in GraphGet(loss_graph, "SMITH")
    /\ CallLocals.steps[1] = <<3, 10>>
    /\ LinesOfKind(result.value.reasoning, "lost_to")
           = <<Line("lost_to", "OMAR", "ALI", 0, 0)>>

\* C17: the recent-form label of calculate_beatability(R, O) depends only on
\* L = min(3, losses of O) and W = min(3, wins of O): "declining" with 0.15
\* added and one reasoning line when L > W, "improving" with nothing added
\* when W > L, "stable" with nothing added otherwise; one of the three
\* labels is always assigned.
C17_RecentForm ==
    result.op = "calculate_beatability" =>
        LET L == Min(3, Lost(result.args[2]))
            W == Min(3, Won(result.args[2]))
            lines == LinesOfKind(result.value.reasoning, "form_declining")
            before == CallLocals.steps[2]
            after == CallLocals.steps[3]
        IN  /\ L > W => /\ result.value.recent_form = "declining"
                        /\ after = RAdd(before, <<15, 100>>)
                        /\ lines = <<Line("form_declining", "", "", L, 0)>>
            /\ W > L => /\ result.value.recent_form = "improving"
                        /\ after = before /\ lines = <<>>
            /\ W = L => /\ result.value.recent_form = "stable"
                        /\ after = before /\ lines = <<>>
            /\ result.value.recent_form \in {"declining", "improving", "stable"}

\* O has lost four times and won three times: both windows hold three
\* matches and the label is "stable"
C17_Witness ==
    /\ result.op = "calculate_beatability"
    /\ Lost(result.args[2]) = 4 /\ Won(result.args[2]) = 3
    /\ result.value.recent_form = "stable"

\* the score string is two numerals around one dash, no more than 3 apart
TwoIntsWithin3(loss) ==
    /\ Len(loss.score) = 3
    /\ loss.score[1].k = "num" /\ loss.score[2].k = "dash" /\ loss.score[3].k = "num"
    /\ loss.score[1].v - loss.score[3].v \in -3..3

\* C18: the close-losses signal of calculate_beatability(R, O) counts exactly
\* the losses of O whose score splits at '-' into two integers no more than
\* 3 apart, and adds 0.1 x min(count, 3) with one reasoning line when the
\* count is above 0; a loss with a score that does not parse is left out and
\* the losses after it are still scanned.
C18_CloseLossSignal ==
    result.op = "calculate_beatability" =>
        LET close == SelectSeq(CallO.losses, TwoIntsWithin3)
            count == Len(close)
            lines == LinesOfKind(result.value.reasoning, "close_losses")
            before == CallLocals.steps[4]
            after == CallLocals.steps[5]
        IN  /\ CallLocals.close_losses = MapSeq(close, CloseLossEntry)
            /\ count > 0 => /\ after = RAdd(before, RMul(<<1, 10>>, RInt(Min(count, 3))))
                            /\ lines = <<Line("close_losses", "", "", count, 0)>>
            /\ count = 0 => (after = before /\ lines = <<>>)

\* O's losses hold a score with the word None, then a score of three parts,
\* then a 3-0, which is counted
C18_Witness ==
    /\ result.op = "calculate_beatability"
    /\ Len(CallO.losses) = 3
    /\ CallO.losses[1].score = <<TokNone, TokDash, TokNum(0)>>
    /\ Len(Split(CallO.losses[2].score)) = 3
    /\ CallO.losses[3].score = <<TokNum(3), TokDash, TokNum(0)>>
    /\ Len(CallLocals.close_losses) = 1
    /\ Len(LinesOfKind(result.value.reasoning, "close_losses")) = 1

----------------------------------------------------------------------------
(* The stored score *)

\* a corner's score as the claim renders it: 0 when the key is absent or
\* holds null, the integer otherwise
RenderedScore(corner) ==
    IF corner.score.k \in {"absent", "none"} THEN <<TokNum(0)>>
    ELSE Str(ScoreInt(corner.score.v))

\* C19: load_matches stores, for every accepted entry, the score
\* "<red score>-<blue score>" in which the score of a corner without one
\* (the key absent, or present with null) is 0, so that the stored string
\* consists of two integers.
C19_ScoreOfTwoIntegers ==
    [][(result'.op = "load_matches" /\ result'.kind = "return"
        /\ \A i \in 1..Len(result'.feed.entries) : ~EntrySkipped(result'.feed.entries[i])) =>
           /\ Len(matches') = Len(matches) + Len(result'.feed.entries)
           /\ \A i \in 1..Len(result'.feed.entries) :
                  LET e == result'.feed.entries[i] IN
                  matches'[Len(matches) + i].score =
                      RenderedScore(e.red_corner) \o <<TokDash>>
                          \o RenderedScore(e.blue_corner)]_vars

----------------------------------------------------------------------------
(* The score as a sum *)

\* C20: the unclamped score of calculate_beatability(R, O) is the sum of
\* five contributions, each at least 0: 0.3 x |S|; 0.2 x (R.win_rate -
\* O.win_rate) when R's win rate is the higher; 0.15 when the form is
\* declining; 0.1 when R has more matches than O; 0.1 x min(close losses, 3).
\* The beatability_score returned is the smaller of that sum and 1, and so
\* lies in [0, 1].
C20_SumOfSignals ==
    result.op = "calculate_beatability" =>
        LET R == result.args[1]
            O == result.args[2]
            S == BeatenBy(R) \cap BeatersOf(O)
            rateR == Norm(Won(R), Won(R) + Lost(R))
            rateO == Norm(Won(O), Won(O) + Lost(O))
            c1 == RMul(<<3, 10>>, RInt(Cardinality(S)))
            c2 == IF RLess(rateO, rateR) THEN RMul(<<2, 10>>, RSub(rateR, rateO)) ELSE Zero
            c3 == IF result.value.recent_form = "declining" THEN <<15, 100>> ELSE Zero
            c4 == IF Won(R) + Lost(R) > Won(O) + Lost(O) THEN <<1, 10>> ELSE Zero
            c5 == RMul(<<1, 10>>, RInt(Min(Len(SelectSeq(CallO.losses, TwoIntsWithin3)), 3)))
            sum == RAdd(RAdd(RAdd(RAdd(c1, c2), c3), c4), c5)
        IN  /\ CallLocals.score = sum
            /\ \A c \in {c1, c2, c3, c4, c5} : RLeq(Zero, c)
            /\ result.value.beatability_score = RMin(sum, One)
            /\ InUnit(result.value.beatability_score)

\* every signal contributes and the sum stays below 1
C20_Witness ==
    /\ result.op = "calculate_beatability"
    /\ \A i \in 1..4 : RLess(CallLocals.steps[i], CallLocals.steps[i + 1])
    /\ RLess(Zero, CallLocals.steps[1])
    /\ RLess(CallLocals.score, One)
    /\ result.value.beatability_score = CallLocals.score

----------------------------------------------------------------------------
(* The loss-chain trace *)

\* the names of the "first" lines of a printed trace
FirstLevel(lines) ==
    {lines[i].name : i \in {j \in 1..Len(lines) : lines[j].kind = "first"}}

\* the names of the "second" lines printed under the "first" line at i
SecondsUnder(lines, i) ==
    {lines[j].name :
        j \in {k \in (i + 1)..Len(lines) :
                  /\ lines[k].kind = "second"
                  /\ \A m \in (i + 1)..k : lines[m].kind # "first"}}

\* C21: print_loss_chains(X, depth) with depth >= 2 lists every athlete of
\* loss_graph[X] and, under each such beater B, every athlete of
\* loss_graph[B].
C21_ListsEverySecondBeater ==
    (result.op = "print_loss_chains" /\ result.args[2] >= 2) =>
        LET lines == result.value IN
        /\ FirstLevel(lines) = GraphGet(loss_graph, result.args[1])
        /\ \A i \in 1..Len(lines) :
               lines[i].kind = "first" =>
                   SecondsUnder(lines, i) = GraphGet(loss_graph, lines[i].name)

\* the index of the "first" line a "second" line at k is printed under
FirstAbove(lines, k) ==
    CHOOSE i \in 1..k :
        /\ lines[i].kind = "first"
        /\ \A m \in (i + 1)..k : lines[m].kind # "first"

\* C22: print_loss_chains returns for every graph, cyclic ones included, and
\* for every depth it prints no athlete further than two hops from the traced
\* one: after the title, one line per beater of X and under each beater B at
\* most three lines, each naming a beater of B, and nothing else.
C22_TwoHopsAtMost ==
    result.op = "print_loss_chains" =>
        LET lines == result.value
            X == result.args[1]
            depth == result.args[2]
        IN
        /\ lines[1] = ChainLine("title", X, "")
        /\ Len(lines) <= 2 + 4 * Cardinality(GraphGet(loss_graph, X))
        /\ \A k \in 2..Len(lines) :
               \/ k = 2 /\ lines[k].kind \in {"none", "header"}
               \/ /\ k > 2 /\ lines[2].kind = "header"
                  /\ lines[k].kind = "first"
                  /\ lines[k].name \in GraphGet(loss_graph, X)
               \/ /\ k > 3 /\ lines[2].kind = "header"
                  /\ lines[k].kind = "second"
                  /\ depth > 1
                  /\ lines[k].name \in
                         GraphGet(loss_graph, lines[FirstAbove(lines, k)].name)
        /\ \A i \in 1..Len(lines) :
               lines[i].kind = "first" => Cardinality(SecondsUnder(lines, i)) <= 3

\* a trace of depth 3 in a graph where ALI and SMITH have beaten each other:
\* the second level comes back to the traced athlete and the trace stops
C22_Witness ==
    /\ result.op = "print_loss_chains"
    /\ result.args = <<"ALI", 3>>
    /\ "SMITH" \in GraphGet(loss_graph, "ALI")
    /\ "ALI" \in GraphGet(loss_graph, "SMITH")
    /\ \E k \in 1..Len(result.value) :
           /\ result.value[k] = ChainLine("second", "ALI", "KSA")
           /\ result.value[FirstAbove(result.value, k)].name = "SMITH"

----------------------------------------------------------------------------
(* Records and match lists *)

\* the matches, in feed order, in which name is the winner or the loser
Involving(name) == SelectSeq(matches, LAMBDA m : m.winner = name \/ m.loser = name)

\* the country a match carries for name; the winner's side is looked at first
CountryIn(m, name) == IF m.winner = name THEN m.winner_country ELSE m.loser_country

\* C23: the country of athlete_records[name] is the country carried by the
\* first accepted match, in feed order, that names the athlete as winner or
\* loser; a later match under another country neither changes it nor adds a
\* second record for the name.
C23_FirstCountryKept ==
    /\ \A i \in 1..Len(athlete_records) :
           LET rec == athlete_records[i] IN
           /\ Involving(rec.name) # <<>>
           /\ rec.country = CountryIn(Head(Involving(rec.name)), rec.name)
    /\ \A i, j \in 1..Len(athlete_records) :
           athlete_records[i].name = athlete_records[j].name => i = j

\* ALI is first seen under KSA and appears again under UAE
C23_Witness ==
    /\ Len(Involving("ALI")) >= 2
    /\ CountryIn(Involving("ALI")[1], "ALI") = "KSA"
    /\ CountryIn(Involving("ALI")[2], "ALI") = "UAE"
    /\ HasKey(athlete_records, "ALI")
    /\ Lookup(athlete_records, "ALI").country = "KSA"

\* the accepted matches name won, in feed order
WinsOf(name) == SelectSeq(matches, LAMBDA m : m.winner = name)

\* the accepted matches name lost, in feed order
LossesOf(name) == SelectSeq(matches, LAMBDA m : m.loser = name)

\* C24: every athlete's wins and losses lists hold the athlete's matches in
\* feed order, and the key_losses of a ScoutingTarget are the candidate's last
\* min(5, n) losses in that order, n being the number of the candidate's
\* losses.
C24_KeyLossesAreLastFive ==
    /\ \A i \in 1..Len(athlete_records) :
           /\ athlete_records[i].wins = WinsOf(athlete_records[i].name)
           /\ athlete_records[i].losses = LossesOf(athlete_records[i].name)
    /\ result.op = "calculate_beatability" =>
           LET losses == LossesOf(result.args[2])
               n == Len(losses)
               key_losses == result.value.key_losses
           IN
           /\ Len(key_losses) = Min(5, n)
           /\ \A k \in 1..Len(key_losses) :
                  key_losses[k] = KeyLossEntry(losses[n - Len(key_losses) + k])

\* SMITH has lost to five athletes and then to ALI: the key losses leave out
\* the earliest loss, to OMAR, and end with the loss to ALI
C24_Witness ==
    /\ result.op = "calculate_beatability"
    /\ result.args = <<"ALI", "SMITH">>
    /\ Len(LossesOf("SMITH")) = 6
    /\ LossesOf("SMITH")[1].winner = "OMAR"
    /\ Len(result.value.key_losses) = 5
    /\ result.value.key_losses[1].to = "KIM"
    /\ result.value.key_losses[5].to = "ALI"

----------------------------------------------------------------------------
(* Shared opponents *)

\* set(list)
SetOf(list) == {list[i] : i \in 1..Len(list)}

\* every athlete name has met, won or lost
Faced(name) == GraphGet(win_graph, name) \cup GraphGet(loss_graph, name)

\* name is a key of neither graph
NoGraphEntry(name) == name \notin DOMAIN win_graph /\ name \notin DOMAIN loss_graph

\* C25: as a set, find_shared_opponents(a, b) is find_shared_opponents(b, a)
\* and is the intersection of (win_graph[a] union loss_graph[a]) with
\* (win_graph[b] union loss_graph[b]); it is empty when a or b has no graph
\* entry.
C25_SharedOpponentsSymmetric ==
    result.op = "find_shared_opponents" =>
        LET a == result.args[1]
            b == result.args[2]
        IN
        /\ SetOf(result.value) = SetOf(find_shared_opponents(b, a))
        /\ SetOf(result.value) = Faced(a) \cap Faced(b)
        /\ Len(result.value) = Cardinality(SetOf(result.value))
        /\ (NoGraphEntry(a) \/ NoGraphEntry(b)) => result.value = <<>>

\* ALI and SMITH share an opponent that ALI lost to, and the call has been
\* made for the pair; in another state it has been made with a stranger
C25_Witness ==
    /\ result.op = "find_shared_opponents"
    /\ result.args = <<"ALI", "SMITH">>
    /\ \E n \in SetOf(result.value) : n \in GraphGet(loss_graph, "ALI")

\* find_shared_opponents has been called for a stranger and an athlete who
\* has opponents
C25_WitnessStranger ==
    /\ result.op = "find_shared_opponents"
    /\ result.args[1] = Stranger
    /\ NoGraphEntry(Stranger)
    /\ Faced(result.args[2]) # {}
    /\ result.value = <<>>

----------------------------------------------------------------------------
(* Conservation of matches *)

RECURSIVE SumSeq(_)
\* the sum of a list of numbers
SumSeq(ns) == IF ns = <<>> THEN 0 ELSE Head(ns) + SumSeq(Tail(ns))

\* C26: after any sequence of load_matches calls the wins lists of all
\* athletes together, the losses lists of all athletes together and
\* analyzer.matches have one length, and that length is the sum of the counts
\* the calls returned: every call adds to matches exactly the count it
\* returns, and a call that returns no count adds nothing.
C26_MatchesConserved ==
    /\ [](/\ SumSeq(MapSeq(athlete_records, LAMBDA rec : Len(rec.wins))) = Len(matches)
          /\ SumSeq(MapSeq(athlete_records, LAMBDA rec : Len(rec.losses))) = Len(matches))
    /\ [][(result'.op = "load_matches" /\ result' # result) =>
             Len(matches') = Len(matches) + (IF result'.kind = "return"
                                             THEN result'.count ELSE 0)]_vars

----------------------------------------------------------------------------
(* The two graphs and the records *)

\* every name held by a graph, as a key or as a member of a set
GraphNames(g) == DOMAIN g \cup UNION {g[k] : k \in DOMAIN g}

\* C27: in every reachable state win_graph and loss_graph are converses (Y is
\* in win_graph[X] exactly when X is in loss_graph[Y]), every key and every
\* member of either graph is a key of athlete_records, and Y is in
\* win_graph[X] exactly when some match of athlete_records[X].wins has loser Y.
C27_GraphsAreConverses ==
    LET all == GraphNames(win_graph) \cup GraphNames(loss_graph)
                   \cup Keys(athlete_records) \cup {Stranger}
    IN
    /\ \A X, Y \in all :
           Y \in GraphGet(win_graph, X) <=> X \in GraphGet(loss_graph, Y)
    /\ GraphNames(win_graph) \cup GraphNames(loss_graph) \subseteq Keys(athlete_records)
    /\ \A X, Y \in all :
           Y \in GraphGet(win_graph, X) <=>
               /\ HasKey(athlete_records, X)
               /\ \E i \in 1..Len(Lookup(athlete_records, X).wins) :
                      Lookup(athlete_records, X).wins[i].loser = Y

\* three matches are held, ALI has beaten two different athletes and has
\* lost a match
C27_Witness ==
    /\ Len(matches) = 3
    /\ Cardinality(GraphGet(win_graph, "ALI")) = 2
    /\ GraphGet(loss_graph, "ALI") # {}
    /\ HasKey(athlete_records, "ALI")
    /\ Len(Lookup(athlete_records, "ALI").wins) >= 2

----------------------------------------------------------------------------
(* Loading a feed twice *)

\* the analyzer holds what one load of feed into a new analyzer leaves
LoadedOnce(feed) ==
    LET out == load_matches(feed, NewAnalyzer) IN ~out.raised /\ out.st = Current

\* C28: load_matches does not reset the analyzer: loading a feed a second
\* time leaves win_graph, loss_graph and the keys of athlete_records as they
\* were, doubles the length of matches and of every wins and losses list, so
\* that every win_rate stays and every total_matches doubles.
C28_SecondLoadDoubles ==
    [][(result'.op = "load_matches" /\ result' # result /\ LoadedOnce(result'.feed)) =>
           /\ win_graph' = win_graph
           /\ loss_graph' = loss_graph
           /\ Len(matches') = 2 * Len(matches)
           /\ Len(athlete_records') = Len(athlete_records)
           /\ \A i \in 1..Len(athlete_records) :
                  LET before == athlete_records[i]
                      after == athlete_records'[i]
                  IN
                  /\ after.name = before.name
                  /\ Len(after.wins) = 2 * Len(before.wins)
                  /\ Len(after.losses) = 2 * Len(before.losses)
                  /\ win_rate(after) = win_rate(before)
                  /\ total_matches(after) = 2 * total_matches(before)]_vars

\* a feed of three matches, in which ALI and SMITH beat each other, has been
\* loaded twice
C28_Witness ==
    /\ result.op = "load_matches"
    /\ result.feed = TraceFeed(1, TRUE)
    /\ Len(matches) = 6
    /\ Current = load_matches(result.feed, load_matches(result.feed, NewAnalyzer).st).st

----------------------------------------------------------------------------
(* A declared winner who is neither corner *)

\* the entry names both corners and declares a winner who is neither of them
WinnerIsNeither(e) ==
    /\ ~e.red_corner.null /\ ~e.blue_corner.null
    /\ e.red_corner.name # "" /\ e.blue_corner.name # ""
    /\ e.winner \notin {"", e.red_corner.name, e.blue_corner.name}

----------------------------------------------------------------------------
(* Losses without a score *)

\* the corner carries no score: the key is absent or holds null
NoScore(corner) == corner.score.k \in {"absent", "none"}

\* the score string '0-0'
ZeroZero == <<TokNum(0), TokDash, TokNum(0)>>

\* C30: a loss whose feed entry had no score on either corner is stored with
\* the score '0-0', and calculate_beatability counts every loss stored as
\* '0-0' as a close loss, which raises the candidate's score by 0.1 for each
\* such loss up to three.
C30_NoScoreIsCloseLoss ==
    /\ [][(result'.op = "load_matches" /\ result'.kind = "return"
           /\ \A i \in 1..Len(result'.feed.entries) :
                  ~EntrySkipped(result'.feed.entries[i])) =>
              \A i \in 1..Len(result'.feed.entries) :
                  LET e == result'.feed.entries[i] IN
                  (NoScore(e.red_corner) /\ NoScore(e.blue_corner)) =>
                      matches'[Len(matches) + i].score = ZeroZero]_vars
    /\ [](result.op = "calculate_beatability" =>
             LET zeros == SelectSeq(CallO.losses, LAMBDA loss : loss.score = ZeroZero)
                 close == CallLocals.close_losses
             IN
             /\ Len(SelectSeq(close, LAMBDA c : c.score = ZeroZero)) = Len(zeros)
             /\ CallLocals.steps[5] =
                    RAdd(CallLocals.steps[4], RMul(<<1, 10>>, RInt(Min(Len(close), 3))))
             /\ RLeq(RMul(<<1, 10>>, RInt(Min(Len(zeros), 3))),
                     RSub(CallLocals.steps[5], CallLocals.steps[4]))
             /\ result.value.beatability_score = Cap(CallLocals.steps[5]))

====
